---- MODULE Spec2Model ----
(***************************************************************************)
(* Model of mappingmcp: the mapping entities, the MappingContainer with    *)
(* its three indices and two-phase search, and the TinyV2 and ProGuard     *)
(* parsers (src/src/mappingmcp/mappings.py).                               *)
(*                                                                         *)
(* A Python str is a sequence of one-character strings; None is the value  *)
(* None below, which is no str.  A dict is a sequence of <<key, value>>    *)
(* pairs in insertion order (Python dicts iterate in insertion order and   *)
(* an overwritten key keeps its place).  ClassMapping objects are mutable  *)
(* and shared by reference, so they live in a heap and are named by their  *)
(* index in it.                                                            *)
(***************************************************************************)
EXTENDS Integers, Sequences, FiniteSets, TLC

\* ------------------------------------------------------------------------
\* Python str operations
\* ------------------------------------------------------------------------

\* Optional[str] = None.  A one-element sequence holding a word that is no character.
None == <<"None">>

TAB == "\t"
NL == "\n"
SP == " "

\* str.isspace() for the characters of the model
IsSpace(ch) == ch \in {TAB, NL, SP}

\* bool(name) for an Optional[str]: None and "" are falsy
Truthy(name) == name # None /\ name # <<>>

\* a[lo:] and a[:hi] for 0 <= lo, hi (0-based, as Python)
SliceFrom(s, lo) == SubSeq(s, lo + 1, Len(s))
SliceTo(s, hi) == SubSeq(s, 1, IF hi < Len(s) THEN hi ELSE Len(s))

\* a variant that keeps one element more
SliceLimitOneMore(s, limit) ==
    IF limit >= 0 THEN SliceTo(s, limit + 1)
    ELSE IF Len(s) + limit + 1 > 0 THEN SubSeq(s, 1, Len(s) + limit + 1) ELSE <<>>

\* results[:limit] for any integer limit: a negative limit counts from the end
SliceLimit(s, limit) ==
    IF limit >= 0 THEN SliceTo(s, limit)
    ELSE IF Len(s) + limit > 0 THEN SubSeq(s, 1, Len(s) + limit) ELSE <<>>

\* the ASCII letters
UpperCase ==
    <<"A", "B", "C", "D", "E", "F", "G", "H", "I", "J", "K", "L", "M", "N", "O", "P",
      "Q", "R", "S", "T", "U", "V", "W", "X", "Y", "Z">>

LowerCase ==
    <<"a", "b", "c", "d", "e", "f", "g", "h", "i", "j", "k", "l", "m", "n", "o", "p",
      "q", "r", "s", "t", "u", "v", "w", "x", "y", "z">>

\* str.lower() on one character
LowerChar(ch) ==
    IF \E k \in 1..Len(UpperCase) : UpperCase[k] = ch
    THEN LowerCase[CHOOSE k \in 1..Len(UpperCase) : UpperCase[k] = ch]
    ELSE ch

\* str.lower()
lower(s) == [i \in 1..Len(s) |-> LowerChar(s[i])]

\* s.startswith(p)
startswith(s, p) == Len(s) >= Len(p) /\ SubSeq(s, 1, Len(p)) = p

\* s.endswith(p)
endswith(s, p) == Len(s) >= Len(p) /\ SubSeq(s, Len(s) - Len(p) + 1, Len(s)) = p

\* p in s (substring test)
contains(s, p) == \E i \in 1..(Len(s) - Len(p) + 1) : SubSeq(s, i, i + Len(p) - 1) = p

\* s.find(p): least 1-based position of p in s, 0 when absent
find(s, p) ==
    IF contains(s, p)
    THEN CHOOSE i \in 1..(Len(s) - Len(p) + 1) :
            /\ SubSeq(s, i, i + Len(p) - 1) = p
            /\ \A j \in 1..(i - 1) : SubSeq(s, j, j + Len(p) - 1) # p
    ELSE 0

\* s.split(sep) for a non-empty separator: always at least one part
RECURSIVE split(_, _)
split(s, sep) ==
    LET i == find(s, sep) IN
    IF i = 0 THEN <<s>>
    ELSE <<SubSeq(s, 1, i - 1)>> \o split(SubSeq(s, i + Len(sep), Len(s)), sep)

\* s.split(): split on runs of whitespace, no empty parts
RECURSIVE splitws(_)
splitws(s) ==
    IF s = <<>> THEN <<>>
    ELSE IF IsSpace(s[1]) THEN splitws(Tail(s))
    ELSE LET stops == {i \in 1..Len(s) : IsSpace(s[i])}
             e == IF stops = {} THEN Len(s) + 1
                  ELSE CHOOSE i \in stops : \A j \in stops : i <= j
         IN <<SubSeq(s, 1, e - 1)>> \o splitws(SubSeq(s, e, Len(s)))

\* s.replace(old, new) for one-character old and new
replace(s, old, new) == [i \in 1..Len(s) |-> IF s[i] = old THEN new ELSE s[i]]

\* s.lstrip(), s.rstrip(), s.strip(): drop leading / trailing whitespace
RECURSIVE lstrip(_)
lstrip(s) == IF s # <<>> /\ IsSpace(s[1]) THEN lstrip(Tail(s)) ELSE s

RECURSIVE rstrip(_)
rstrip(s) ==
    IF s # <<>> /\ IsSpace(s[Len(s)]) THEN rstrip(SubSeq(s, 1, Len(s) - 1)) ELSE s

strip(s) == rstrip(lstrip(s))

\* s.rstrip(chars) for a one-character chars
RECURSIVE rstripChar(_, _)
rstripChar(s, ch) ==
    IF s # <<>> /\ s[Len(s)] = ch THEN rstripChar(SubSeq(s, 1, Len(s) - 1), ch) ELSE s

\* sep.join(parts)
RECURSIVE join(_, _)
join(parts, sep) ==
    IF parts = <<>> THEN <<>>
    ELSE IF Len(parts) = 1 THEN parts[1]
    ELSE parts[1] \o sep \o join(Tail(parts), sep)

\* xs.index(x) (0-based) for x in xs; -1 stands for "x not in xs" at the call sites
IndexOf(xs, x) ==
    IF \E i \in 1..Len(xs) : xs[i] = x
    THEN (CHOOSE i \in 1..Len(xs) : xs[i] = x /\ \A j \in 1..(i - 1) : xs[j] # x) - 1
    ELSE -1

\* ------------------------------------------------------------------------
\* difflib.SequenceMatcher(None, a, b).ratio()
\* ------------------------------------------------------------------------

\* length of the common run of a and b starting at a[i], b[j]
RECURSIVE RunLen(_, _, _, _)
RunLen(a, b, i, j) ==
    IF i > Len(a) \/ j > Len(b) THEN 0
    ELSE IF a[i] # b[j] THEN 0
    ELSE 1 + RunLen(a, b, i + 1, j + 1)

\* find_longest_match: the longest common block, the earliest in a among the
\* longest, and the earliest in b among those; <<i, j, k>>, k = 0 if none
LongestMatch(a, b) ==
    LET pos == (1..Len(a)) \X (1..Len(b))
        lens == {RunLen(a, b, p[1], p[2]) : p \in pos}
        best == IF lens = {} THEN 0 ELSE CHOOSE k \in lens : \A j \in lens : j <= k
    IN IF best = 0 THEN <<0, 0, 0>>
       ELSE LET hits == {p \in pos : RunLen(a, b, p[1], p[2]) = best}
                p0 == CHOOSE p \in hits :
                        \A q \in hits : p[1] < q[1] \/ (p[1] = q[1] /\ p[2] <= q[2])
            IN <<p0[1], p0[2], best>>

\* sum of the sizes of get_matching_blocks(): the longest block, then the
\* same on the pieces left and right of it
RECURSIVE Matches(_, _)
Matches(a, b) ==
    LET m == LongestMatch(a, b) IN
    IF m[3] = 0 THEN 0
    ELSE m[3]
         + Matches(SubSeq(a, 1, m[1] - 1), SubSeq(b, 1, m[2] - 1))
         + Matches(SubSeq(a, m[1] + m[3], Len(a)), SubSeq(b, m[2] + m[3], Len(b)))

\* ratio() = 2.0 * matches / (len(a) + len(b)), 1.0 when both are empty;
\* kept as the fraction <<numerator, denominator>>
ratio(a, b) ==
    IF Len(a) + Len(b) = 0 THEN <<1, 1>>
    ELSE <<2 * Matches(a, b), Len(a) + Len(b)>>

\* x > y, x = y on fractions with positive denominators
FracGT(x, y) == x[1] * y[2] > y[1] * x[2]
FracEQ(x, y) == x[1] * y[2] = y[1] * x[2]

\* a variant with the threshold at 0.5
ThresholdHalf == <<1, 2>>

\* the fuzzy threshold 0.6 and the exact score 1.0
Threshold == <<6, 10>>
One == <<1, 1>>

\* ------------------------------------------------------------------------
\* dict: a sequence of <<key, value>> pairs in insertion order
\* ------------------------------------------------------------------------

DictHas(d, k) == \E i \in 1..Len(d) : d[i][1] = k

DictGet(d, k) == d[CHOOSE i \in 1..Len(d) : d[i][1] = k][2]

\* d[k] = v: an existing key keeps its place
DictSet(d, k, v) ==
    IF DictHas(d, k)
    THEN [i \in 1..Len(d) |-> IF d[i][1] = k THEN <<k, v>> ELSE d[i]]
    ELSE Append(d, <<k, v>>)

DictKeys(d) == {d[i][1] : i \in 1..Len(d)}

\* list(d.values())
DictValues(d) == [i \in 1..Len(d) |-> d[i][2]]

\* ------------------------------------------------------------------------
\* Entities
\* ------------------------------------------------------------------------

MethodMapping(obf, inter, mapped, desc, params) ==
    [obf_name |-> obf, intermediary_name |-> inter, mapped_name |-> mapped,
     descriptor |-> desc, parameters |-> params]

FieldMapping(obf, inter, mapped, desc) ==
    [obf_name |-> obf, intermediary_name |-> inter, mapped_name |-> mapped,
     descriptor |-> desc]

\* a new ClassMapping: both member dicts start empty
ClassMapping(obf, inter, mapped) ==
    [obf_name |-> obf, intermediary_name |-> inter, mapped_name |-> mapped,
     methods |-> <<>>, fields |-> <<>>]

\* [e.obf_name, e.intermediary_name, e.mapped_name]
NamesOf(e) == <<e.obf_name, e.intermediary_name, e.mapped_name>>

\* owner=None of a SearchResult; class references are heap indices >= 1
NoOwner == 0

\* ------------------------------------------------------------------------
\* MappingContainer
\* ------------------------------------------------------------------------

\* MappingContainer.__init__
EmptyContainer ==
    [classes |-> <<>>, _class_index |-> <<>>, _method_index |-> <<>>,
     _field_index |-> <<>>]

\* name.split("/")[-1].lower()
SimpleName(name) ==
    LET parts == split(name, <<"/">>) IN lower(parts[Len(parts)])

\* a variant that indexes the full path alone
IndexClassNameFullOnly(idx, name, ref) ==
    IF ~Truthy(name) THEN idx ELSE DictSet(idx, lower(name), ref)

\* one pass of the loop over the class's names: full path, then simple name
IndexClassName(idx, name, ref) ==
    IF ~Truthy(name) THEN idx
    ELSE LET full == DictSet(idx, lower(name), ref)
             simple == SimpleName(name)
         IN IF simple # <<>> /\ simple # lower(name)
            THEN DictSet(full, simple, ref)
            ELSE full

RECURSIVE IndexClassNames(_, _, _)
IndexClassNames(idx, names, ref) ==
    IF names = <<>> THEN idx
    ELSE IndexClassNames(IndexClassName(idx, names[1], ref), Tail(names), ref)

\* a variant that sets the key to the new pair alone instead of appending
IndexMemberNameOverwrite(idx, name, ref, member) ==
    IF ~Truthy(name) THEN idx
    ELSE DictSet(idx, lower(name), <<<<ref, member>>>>)

\* one pass of the loop over a member's names: append (cls, member) under the key
IndexMemberName(idx, name, ref, member) ==
    IF ~Truthy(name) THEN idx
    ELSE LET key == lower(name)
             old == IF DictHas(idx, key) THEN DictGet(idx, key) ELSE <<>>
         IN DictSet(idx, key, Append(old, <<ref, member>>))

RECURSIVE IndexMemberNames(_, _, _, _)
IndexMemberNames(idx, names, ref, member) ==
    IF names = <<>> THEN idx
    ELSE IndexMemberNames(IndexMemberName(idx, names[1], ref, member),
                          Tail(names), ref, member)

\* the loop over cls.methods.values() (and over cls.fields.values())
RECURSIVE IndexMembers(_, _, _)
IndexMembers(idx, members, ref) ==
    IF members = <<>> THEN idx
    ELSE IndexMembers(IndexMemberNames(idx, NamesOf(members[1]), ref, members[1]),
                      Tail(members), ref)

\* MappingContainer.add_class(cls), cls = hp[ref]
add_class(c, hp, ref) ==
    LET cls == hp[ref] IN
    [classes |-> DictSet(c.classes, cls.intermediary_name, ref),
     _class_index |-> IndexClassNames(c._class_index, NamesOf(cls), ref),
     _method_index |-> IndexMembers(c._method_index, DictValues(cls.methods), ref),
     _field_index |-> IndexMembers(c._field_index, DictValues(cls.fields), ref)]

\* ------------------------------------------------------------------------
\* MappingContainer.search
\* ------------------------------------------------------------------------

SearchResult(entry, owner, score, fuzzy) ==
    [entry |-> entry, owner |-> owner, score |-> score, fuzzy |-> fuzzy]

ClassEntry(ref) == [kind |-> "class", cls |-> ref]
MethodEntry(m) == [kind |-> "method", member |-> m]
FieldEntry(f) == [kind |-> "field", member |-> f]

\* query.lower().replace(".", "/")
NormalizeQuery(query) == replace(lower(query), ".", "/")

\* a variant that builds member results the way class results are built: owner=None
MemberResultsNoOwner(pairs, kind, score, fuzzy) ==
    [i \in 1..Len(pairs) |->
        SearchResult(IF kind = "method" THEN MethodEntry(pairs[i][2])
                     ELSE FieldEntry(pairs[i][2]),
                     NoOwner, score, fuzzy)]

\* one SearchResult per (cls, member) pair of an index entry
MemberResults(pairs, kind, score, fuzzy) ==
    [i \in 1..Len(pairs) |->
        SearchResult(IF kind = "method" THEN MethodEntry(pairs[i][2])
                     ELSE FieldEntry(pairs[i][2]),
                     pairs[i][1], score, fuzzy)]

\* the exact phase: class hit, then method hits, then field hits
ExactResults(c, q) ==
    (IF DictHas(c._class_index, q)
     THEN <<SearchResult(ClassEntry(DictGet(c._class_index, q)), NoOwner, One, FALSE)>>
     ELSE <<>>)
    \o (IF DictHas(c._method_index, q)
        THEN MemberResults(DictGet(c._method_index, q), "method", One, FALSE)
        ELSE <<>>)
    \o (IF DictHas(c._field_index, q)
        THEN MemberResults(DictGet(c._field_index, q), "field", One, FALSE)
        ELSE <<>>)

\* the fuzzy loop over _class_index.items()
RECURSIVE FuzzyClasses(_, _)
FuzzyClasses(idx, q) ==
    IF idx = <<>> THEN <<>>
    ELSE LET r == ratio(q, idx[1][1]) IN
         (IF FracGT(r, Threshold)
          THEN <<SearchResult(ClassEntry(idx[1][2]), NoOwner, r, TRUE)>>
          ELSE <<>>)
         \o FuzzyClasses(Tail(idx), q)

\* the fuzzy loop over _method_index.items() (and _field_index.items())
RECURSIVE FuzzyMembers(_, _, _)
FuzzyMembers(idx, q, kind) ==
    IF idx = <<>> THEN <<>>
    ELSE LET r == ratio(q, idx[1][1]) IN
         (IF FracGT(r, Threshold)
          THEN MemberResults(idx[1][2], kind, r, TRUE)
          ELSE <<>>)
         \o FuzzyMembers(Tail(idx), q, kind)

\* a variant that puts a result before the results of equal score: the order of
\* an ascending sort that is then reversed
RECURSIVE InsertByScoreBeforeEqual(_, _)
InsertByScoreBeforeEqual(sorted, r) ==
    IF sorted = <<>> THEN <<r>>
    ELSE IF ~FracGT(sorted[1].score, r.score) THEN <<r>> \o sorted
    ELSE <<sorted[1]>> \o InsertByScoreBeforeEqual(Tail(sorted), r)

\* list.sort(key=score, reverse=True): stable, equal scores keep their order
RECURSIVE InsertByScore(_, _)
InsertByScore(sorted, r) ==
    IF sorted = <<>> THEN <<r>>
    ELSE IF FracGT(r.score, sorted[1].score) THEN <<r>> \o sorted
    ELSE <<sorted[1]>> \o InsertByScore(Tail(sorted), r)

\* a variant that leaves the candidates in the order the loops found them
SortByScoreSkipped(rs) == rs

RECURSIVE SortByScore(_)
SortByScore(rs) ==
    IF rs = <<>> THEN <<>>
    ELSE InsertByScore(SortByScore(SubSeq(rs, 1, Len(rs) - 1)), rs[Len(rs)])

\* the fuzzy phase before truncation
FuzzyResults(c, q) ==
    SortByScore(FuzzyClasses(c._class_index, q)
                \o FuzzyMembers(c._method_index, q, "method")
                \o FuzzyMembers(c._field_index, q, "field"))

\* a variant in which the exact phase collects into the method index's own list:
\* the field hits are appended to the list stored under the query
SearchEffectAliased(c, q) ==
    IF DictHas(c._method_index, q) /\ DictHas(c._field_index, q)
    THEN [c EXCEPT !._method_index =
            DictSet(@, q, DictGet(@, q) \o DictGet(c._field_index, q))]
    ELSE c

\* the container after search has run with normalized query q: search builds
\* new lists (results, fuzzy_results) and assigns nothing on self
SearchEffect(c, q) == c

\* search(query, limit: int = 100)
DefaultLimit == 100

\* a variant whose flag says whether the fuzzy phase found anything
searchFlagFromResults(c, query, limit) ==
    LET q == NormalizeQuery(query)
        exact == ExactResults(c, q)
        found == SliceLimit(FuzzyResults(c, q), limit)
    IN IF exact # <<>>
       THEN [results |-> SliceLimit(exact, limit), fuzzy |-> FALSE]
       ELSE [results |-> found, fuzzy |-> found # <<>>]

\* MappingContainer.search(query, limit) -> (results, fuzzy)
search(c, query, limit) ==
    LET q == NormalizeQuery(query)
        exact == ExactResults(c, q)
    IN IF exact # <<>>
       THEN [results |-> SliceLimit(exact, limit), fuzzy |-> FALSE]
       ELSE [results |-> SliceLimit(FuzzyResults(c, q), limit), fuzzy |-> TRUE]

\* ------------------------------------------------------------------------
\* State
\* ------------------------------------------------------------------------

VARIABLES
    content,            \* parse(content): the input text
    lines,              \* content.strip().split("\n")
    pos,                \* 1-based index in lines of the next line of the loop
    pc,                 \* "start", "loop", "done" (returned), "error" (raised)
    exc,                \* the exception raised, "" if none
    official_idx,       \* TinyV2: namespace columns
    intermediary_idx,
    named_idx,
    current_class,      \* heap index of the current class, 0 for None
    heap,               \* the ClassMapping objects, in order of creation
    container,          \* the MappingContainer
    added,              \* the objects passed to add_class, in call order
    ret,                \* what the last call returned: a search result or NoRet
    calls,              \* concurrent search calls, one record per caller
    _mapping_cache,     \* server: cache_key -> parsed container, in insertion order
    cache_files,        \* downloader: the files of cache_dir, <<namespace, version>> -> text
    request,            \* the search_mappings call that is being served, or NoRequest
    response,           \* what the last search_mappings call returned, or NoResponse
    downloads,          \* number of _downloader.download_* calls made so far
    parses              \* number of provider.parse calls made so far

vars == <<content, lines, pos, pc, exc, official_idx, intermediary_idx, named_idx,
          current_class, heap, container, added, ret, calls,
          _mapping_cache, cache_files, request, response, downloads, parses>>

serverVars == <<_mapping_cache, cache_files, request, response, downloads, parses>>

parserVars == <<content, lines, pos, pc, exc, official_idx, intermediary_idx,
                named_idx, current_class>>

NoRet == [results |-> <<>>, fuzzy |-> FALSE, query |-> None, limit |-> 0]

NoRequest == [query |-> None, version |-> None, namespace |-> None, limit |-> 0]
NoResponse == [returned |-> FALSE]

\* server.py after import: _mapping_cache = {} and nothing downloaded yet
ServerInit ==
    /\ _mapping_cache = <<>>
    /\ cache_files = <<>>
    /\ request = NoRequest
    /\ response = NoResponse
    /\ downloads = 0
    /\ parses = 0

\* ------------------------------------------------------------------------
\* TinyV2Provider.parse
\* ------------------------------------------------------------------------

\* "tiny", "intermediary", "named", "official", "c", "m", "f"
TINY == <<"t", "i", "n", "y">>
INTERMEDIARY == <<"i", "n", "t", "e", "r", "m", "e", "d", "i", "a", "r", "y">>
NAMED == <<"n", "a", "m", "e", "d">>
OFFICIAL == <<"o", "f", "f", "i", "c", "i", "a", "l">>

\* x in xs
InSeq(xs, x) == \E k \in 1..Len(xs) : xs[k] = x

\* header[3:]
Namespaces(header) == SliceFrom(split(header, <<TAB>>), 3)

\* the count of leading tab characters of the line
RECURSIVE Indent(_)
Indent(line) == IF line # <<>> /\ line[1] = TAB THEN 1 + Indent(Tail(line)) ELSE 0

\* names[idx] if idx >= 0 and len(names) > idx else None
NameAt(names, idx) == IF idx >= 0 /\ Len(names) > idx THEN names[idx + 1] ELSE None

\* the exceptions parse can raise
IndexError == "IndexError"
ValueError == "ValueError"

\* class line: names[intermediary_idx] if in range else names[0], which raises
\* IndexError on an empty list
ClassIntermediaryRaises(names, idx) == ~(idx >= 0 /\ Len(names) > idx) /\ names = <<>>

ClassIntermediary(names, idx) ==
    IF idx >= 0 /\ Len(names) > idx THEN names[idx + 1] ELSE names[1]

\* member line: names[intermediary_idx] if in range else (names[0] if names else "")
MemberIntermediary(names, idx) ==
    IF idx >= 0 /\ Len(names) > idx THEN names[idx + 1]
    ELSE IF names # <<>> THEN names[1] ELSE <<>>

\* a variant that splits the text as written
ContentLinesNoStrip(text) == split(text, <<NL>>)

\* content.strip().split("\n")
ContentLines(text) == split(strip(text), <<NL>>)

\* not lines or not lines[0].startswith("tiny"); split never returns an empty list
InvalidHeader(ls) == ls = <<>> \/ ~startswith(ls[1], TINY)

\* lines 184-198: strip and split the content, check the marker, read the header
TinyBegin ==
    /\ pc = "start"
    /\ LET ls == ContentLines(content)
           namespaces == Namespaces(ls[1])
       IN /\ lines' = ls
          /\ IF InvalidHeader(ls)
             THEN /\ pc' = "error"
                  /\ exc' = ValueError
                  /\ UNCHANGED <<official_idx, intermediary_idx, named_idx>>
             ELSE /\ pc' = "loop"
                  /\ exc' = ""
                  /\ intermediary_idx' =
                        (IF InSeq(namespaces, INTERMEDIARY)
                         THEN IndexOf(namespaces, INTERMEDIARY) ELSE 0)
                  /\ named_idx' = IndexOf(namespaces, NAMED)
                  /\ official_idx' = IndexOf(namespaces, OFFICIAL)
    /\ pos' = 2
    /\ container' = EmptyContainer
    /\ added' = <<>>
    /\ heap' = <<>>
    /\ current_class' = 0
    /\ UNCHANGED <<content, ret, calls, serverVars>>

\* the class branch, lines 216-229
TinyClassLine(parts) ==
    LET names == SliceFrom(parts, 1)
        obf_name == NameAt(names, official_idx)
        intermediary_name == ClassIntermediary(names, intermediary_idx)
        mapped_name == NameAt(names, named_idx)
        ref == Len(heap) + 1
        hp == Append(heap, ClassMapping(obf_name, intermediary_name, mapped_name))
    IN IF ClassIntermediaryRaises(names, intermediary_idx)
       THEN /\ pc' = "error"
            /\ exc' = IndexError
            /\ UNCHANGED <<pos, heap, container, added, current_class>>
       ELSE /\ heap' = hp
            /\ current_class' = ref
            /\ container' = add_class(container, hp, ref)
            /\ added' = Append(added, ref)
            /\ pos' = pos + 1
            /\ UNCHANGED <<pc, exc>>

\* a variant that inserts the method into the first class of the file
TinyMethodLineFirstClass(parts) ==
    LET descriptor == IF Len(parts) > 1 THEN parts[2] ELSE <<>>
        names == SliceFrom(parts, 2)
        method == MethodMapping(NameAt(names, official_idx),
                                MemberIntermediary(names, intermediary_idx),
                                NameAt(names, named_idx), descriptor, <<>>)
    IN heap' = [heap EXCEPT ![1].methods =
                    DictSet(@, method.intermediary_name, method)]

\* the method branch, lines 232-247
TinyMethodLine(parts) ==
    LET descriptor == IF Len(parts) > 1 THEN parts[2] ELSE <<>>
        names == SliceFrom(parts, 2)
        method == MethodMapping(NameAt(names, official_idx),
                                MemberIntermediary(names, intermediary_idx),
                                NameAt(names, named_idx), descriptor, <<>>)
    IN heap' = [heap EXCEPT ![current_class].methods =
                    DictSet(@, method.intermediary_name, method)]

\* the field branch, lines 249-264
TinyFieldLine(parts) ==
    LET descriptor == IF Len(parts) > 1 THEN parts[2] ELSE None
        names == SliceFrom(parts, 2)
        fld == FieldMapping(NameAt(names, official_idx),
                            MemberIntermediary(names, intermediary_idx),
                            NameAt(names, named_idx), descriptor)
    IN heap' = [heap EXCEPT ![current_class].fields =
                    DictSet(@, fld.intermediary_name, fld)]

\* a variant of the loop body whose member branch has no test for a current
\* class: current_class.methods on None raises AttributeError
TinyLineNoClassTest ==
    /\ pc = "loop"
    /\ pos <= Len(lines)
    /\ LET line == lines[pos]
           indent == Indent(line)
           parts == split(strip(line), <<TAB>>)
       IN IF strip(line) = <<>>
          THEN /\ pos' = pos + 1
               /\ UNCHANGED <<pc, exc, heap, container, added, current_class>>
          ELSE IF indent = 0 /\ Len(parts) > 0 /\ parts[1] = <<"c">>
          THEN TinyClassLine(parts)
          ELSE IF indent = 1 /\ Len(parts) > 0 /\ parts[1] \in {<<"m">>, <<"f">>}
                  /\ current_class = 0
          THEN /\ pc' = "error"
               /\ exc' = "AttributeError"
               /\ UNCHANGED <<pos, heap, container, added, current_class>>
          ELSE IF indent = 1 /\ Len(parts) > 0 /\ parts[1] = <<"m">>
          THEN /\ TinyMethodLine(parts)
               /\ pos' = pos + 1
               /\ UNCHANGED <<pc, exc, container, added, current_class>>
          ELSE IF indent = 1 /\ Len(parts) > 0 /\ parts[1] = <<"f">>
          THEN /\ TinyFieldLine(parts)
               /\ pos' = pos + 1
               /\ UNCHANGED <<pc, exc, container, added, current_class>>
          ELSE /\ pos' = pos + 1
               /\ UNCHANGED <<pc, exc, heap, container, added, current_class>>
    /\ UNCHANGED <<content, lines, official_idx, intermediary_idx, named_idx, ret, calls, serverVars>>

\* one pass of the loop over lines[1:], lines 202-264
TinyLine ==
    /\ pc = "loop"
    /\ pos <= Len(lines)
    /\ LET line == lines[pos]
           indent == Indent(line)
           parts == split(strip(line), <<TAB>>)
       IN IF strip(line) = <<>>
          THEN /\ pos' = pos + 1
               /\ UNCHANGED <<pc, exc, heap, container, added, current_class>>
          ELSE IF indent = 0 /\ Len(parts) > 0 /\ parts[1] = <<"c">>
          THEN TinyClassLine(parts)
          ELSE IF indent = 1 /\ current_class # 0 /\ Len(parts) > 0
                  /\ parts[1] = <<"m">>
          THEN /\ TinyMethodLine(parts)
               /\ pos' = pos + 1
               /\ UNCHANGED <<pc, exc, container, added, current_class>>
          ELSE IF indent = 1 /\ current_class # 0 /\ Len(parts) > 0
                  /\ parts[1] = <<"f">>
          THEN /\ TinyFieldLine(parts)
               /\ pos' = pos + 1
               /\ UNCHANGED <<pc, exc, container, added, current_class>>
          ELSE /\ pos' = pos + 1
               /\ UNCHANGED <<pc, exc, heap, container, added, current_class>>
    /\ UNCHANGED <<content, lines, official_idx, intermediary_idx, named_idx, ret, calls, serverVars>>

\* return container, line 266
TinyReturn ==
    /\ pc = "loop"
    /\ pos > Len(lines)
    /\ pc' = "done"
    /\ UNCHANGED <<content, lines, pos, exc, official_idx, intermediary_idx,
                   named_idx, current_class, heap, container, added, ret, calls, serverVars>>

\* ------------------------------------------------------------------------
\* ProGuardProvider.parse
\* ------------------------------------------------------------------------

\* " -> ", the four-space indent, "#", ":"
ARROW == <<" ", "-", ">", " ">>
INDENT4 == <<" ", " ", " ", " ">>

\* lines 275-278
ProGuardBegin ==
    /\ pc = "start"
    /\ lines' = ContentLines(content)
    /\ pos' = 1
    /\ pc' = "loop"
    /\ exc' = ""
    /\ container' = EmptyContainer
    /\ added' = <<>>
    /\ heap' = <<>>
    /\ current_class' = 0
    /\ UNCHANGED <<content, official_idx, intermediary_idx, named_idx, ret, calls, serverVars>>

\* the class branch, lines 286-296
ProGuardClassLine(line) ==
    LET parts == split(SliceTo(line, Len(line) - 1), ARROW)
        obf_name == replace(strip(parts[1]), ".", "/")
        mapped_name == replace(strip(parts[2]), ".", "/")
        ref == Len(heap) + 1
        hp == Append(heap, ClassMapping(obf_name, obf_name, mapped_name))
    IN /\ heap' = hp
       /\ current_class' = ref
       /\ container' = add_class(container, hp, ref)
       /\ added' = Append(added, ref)
       /\ UNCHANGED <<pc, exc>>

\* method_parts[0].split()[-1] and left.split()[-1] raise IndexError on an empty list
LastWordRaises(s) == splitws(s) = <<>>
LastWord(s) == splitws(s)[Len(splitws(s))]

\* the member branch, lines 300-330
ProGuardMemberLine(line) ==
    LET member_line == strip(line)
        parts == split(member_line, ARROW)
        mapped_name == strip(parts[2])
        left == strip(parts[1])
        method_parts == split(left, <<"(">>)
        params_str == rstripChar(method_parts[2], ")")
        isMethod == contains(left, <<"(">>)
        word == IF isMethod THEN method_parts[1] ELSE left
        obf_name == LastWord(word)
        method == MethodMapping(obf_name, obf_name, mapped_name, <<>>,
                                IF params_str # <<>> THEN split(params_str, <<",">>)
                                ELSE <<>>)
        fld == FieldMapping(obf_name, obf_name, mapped_name, None)
    IN IF ~contains(member_line, ARROW)
       THEN UNCHANGED <<pc, exc, heap>>
       ELSE IF LastWordRaises(word)
       THEN /\ pc' = "error"
            /\ exc' = IndexError
            /\ UNCHANGED heap
       ELSE /\ heap' = [heap EXCEPT ![current_class] =
                    IF isMethod
                    THEN [@ EXCEPT !.methods = DictSet(@, obf_name, method)]
                    ELSE [@ EXCEPT !.fields = DictSet(@, obf_name, fld)]]
            /\ UNCHANGED <<pc, exc>>

\* a variant of the loop body that has no test for comment lines
ProGuardLineNoComments ==
    /\ pc = "loop"
    /\ pos <= Len(lines)
    /\ LET line == strip(lines[pos])
       IN IF line = <<>>
          THEN UNCHANGED <<pc, exc, heap, container, added, current_class>>
          ELSE IF contains(line, ARROW) /\ endswith(line, <<":">>)
          THEN ProGuardClassLine(line)
          ELSE IF current_class # 0 /\ startswith(line, INDENT4)
          THEN /\ ProGuardMemberLine(line)
               /\ UNCHANGED <<container, added, current_class>>
          ELSE UNCHANGED <<pc, exc, heap, container, added, current_class>>
    /\ pos' = IF pc' = "error" THEN pos ELSE pos + 1
    /\ UNCHANGED <<content, lines, official_idx, intermediary_idx, named_idx, ret, calls, serverVars>>

\* one pass of the loop over lines, lines 280-330; the line is stripped first
ProGuardLine ==
    /\ pc = "loop"
    /\ pos <= Len(lines)
    /\ LET line == strip(lines[pos])
       IN IF line = <<>> \/ startswith(line, <<"#">>)
          THEN UNCHANGED <<pc, exc, heap, container, added, current_class>>
          ELSE IF contains(line, ARROW) /\ endswith(line, <<":">>)
          THEN ProGuardClassLine(line)
          ELSE IF current_class # 0 /\ startswith(line, INDENT4)
          THEN /\ ProGuardMemberLine(line)
               /\ UNCHANGED <<container, added, current_class>>
          ELSE UNCHANGED <<pc, exc, heap, container, added, current_class>>
    /\ pos' = IF pc' = "error" THEN pos ELSE pos + 1
    /\ UNCHANGED <<content, lines, official_idx, intermediary_idx, named_idx, ret, calls, serverVars>>

\* return container, line 332
ProGuardReturn ==
    /\ pc = "loop"
    /\ pos > Len(lines)
    /\ pc' = "done"
    /\ UNCHANGED <<content, lines, pos, exc, official_idx, intermediary_idx,
                   named_idx, current_class, heap, container, added, ret, calls, serverVars>>

\* ------------------------------------------------------------------------
\* Inputs
\* ------------------------------------------------------------------------

\* the most lines a body of input text has after its first line
MaxLines == 3

\* the sequences over S of length at most n
SeqsUpTo(S, n) == UNION {[1..k -> S] : k \in 0..n}

\* 'tiny\t2\t0\tofficial\tintermediary\tnamed'
HdrFull ==
    <<"t", "i", "n", "y", "\t", "2", "\t", "0", "\t", "o", "f", "f", "i", "c", "i", "a",
    "l", "\t", "i", "n", "t", "e", "r", "m", "e", "d", "i", "a", "r", "y", "\t", "n",
    "a", "m", "e", "d">>

\* 'tiny\t2\t0\tintermediary\tnamed'
HdrNoOfficial ==
    <<"t", "i", "n", "y", "\t", "2", "\t", "0", "\t", "i", "n", "t", "e", "r", "m", "e",
    "d", "i", "a", "r", "y", "\t", "n", "a", "m", "e", "d">>

\* 'tiny\t2\t0\tofficial\tnamed'
HdrNoIntermediary ==
    <<"t", "i", "n", "y", "\t", "2", "\t", "0", "\t", "o", "f", "f", "i", "c", "i", "a",
    "l", "\t", "n", "a", "m", "e", "d">>

\* ' tiny\t2\t0\tofficial\tintermediary\tnamed'
HdrIndented ==
    <<" ", "t", "i", "n", "y", "\t", "2", "\t", "0", "\t", "o", "f", "f", "i", "c", "i",
    "a", "l", "\t", "i", "n", "t", "e", "r", "m", "e", "d", "i", "a", "r", "y", "\t",
    "n", "a", "m", "e", "d">>

\* 'v1\tofficial\tintermediary\tnamed'
HdrOther ==
    <<"v", "1", "\t", "o", "f", "f", "i", "c", "i", "a", "l", "\t", "i", "n", "t", "e",
    "r", "m", "e", "d", "i", "a", "r", "y", "\t", "n", "a", "m", "e", "d">>

\* '\t'
HdrBlank ==
    <<"\t">>

\* 'c\ta\tn/Foo\tFoo'
LnClass ==
    <<"c", "\t", "a", "\t", "n", "/", "F", "o", "o", "\t", "F", "o", "o">>

\* 'c\tb'
LnClassShort ==
    <<"c", "\t", "b">>

\* 'c'
LnClassBare ==
    <<"c">>

\* '\tm\t()V\tb\tm1\tdoStuff'
LnMethod ==
    <<"\t", "m", "\t", "(", ")", "V", "\t", "b", "\t", "m", "1", "\t", "d", "o", "S",
    "t", "u", "f", "f">>

\* '\tm\t(I)V\tb\tm1\trun'
LnMethodAgain ==
    <<"\t", "m", "\t", "(", "I", ")", "V", "\t", "b", "\t", "m", "1", "\t", "r", "u",
    "n">>

\* '\tm\t()V'
LnMethodBare ==
    <<"\t", "m", "\t", "(", ")", "V">>

\* '\tf\tI\ta\tf1\twidth'
LnField ==
    <<"\t", "f", "\t", "I", "\t", "a", "\t", "f", "1", "\t", "w", "i", "d", "t", "h">>

\* '\t\tp\t0\tx'
LnDeep ==
    <<"\t", "\t", "p", "\t", "0", "\t", "x">>

\* 'x\ty'
LnOther ==
    <<"x", "\t", "y">>

\* ''
LnBlank ==
    <<>>

TinyHeaders == {HdrFull, HdrNoOfficial, HdrNoIntermediary, HdrIndented, HdrOther, HdrBlank}

TinyLines ==
    {LnClass, LnClassShort, LnClassBare, LnMethod, LnMethodAgain,
     LnMethodBare, LnField, LnDeep, LnOther, LnBlank}

\* the TinyV2 input texts: a first line and at most MaxLines more
TinyContents ==
    {join(<<h>> \o body, <<NL>>) : h \in TinyHeaders, body \in SeqsUpTo(TinyLines, MaxLines)}

\* 'a.b.Foo -> x.Foo:'
PgClass ==
    <<"a", ".", "b", ".", "F", "o", "o", " ", "-", ">", " ", "x", ".", "F", "o", "o",
    ":">>

\* 'c -> D:'
PgClass2 ==
    <<"c", " ", "-", ">", " ", "D", ":">>

\* '    int a -> width'
PgField ==
    <<" ", " ", " ", " ", "i", "n", "t", " ", "a", " ", "-", ">", " ", "w", "i", "d",
    "t", "h">>

\* '    void b() -> resize'
PgMethod ==
    <<" ", " ", " ", " ", "v", "o", "i", "d", " ", "b", "(", ")", " ", "-", ">", " ",
    "r", "e", "s", "i", "z", "e">>

\* '    void c(int,B) -> move'
PgMethodParams ==
    <<" ", " ", " ", " ", "v", "o", "i", "d", " ", "c", "(", "i", "n", "t", ",", "B",
    ")", " ", "-", ">", " ", "m", "o", "v", "e">>

\* '    int a'
PgNoArrow ==
    <<" ", " ", " ", " ", "i", "n", "t", " ", "a">>

\* '# c -> D:'
PgComment ==
    <<"#", " ", "c", " ", "-", ">", " ", "D", ":">>

\* ''
PgBlank ==
    <<>>

ProGuardLines ==
    {PgClass, PgClass2, PgField, PgMethod, PgMethodParams, PgNoArrow, PgComment, PgBlank}

\* the ProGuard input texts: at most MaxLines + 1 lines
ProGuardContents ==
    {join(body, <<NL>>) : body \in SeqsUpTo(ProGuardLines, MaxLines + 1)}

\* ------------------------------------------------------------------------
\* Specifications
\* ------------------------------------------------------------------------

ParserInit ==
    /\ lines = <<>>
    /\ pos = 0
    /\ pc = "start"
    /\ exc = ""
    /\ official_idx = -1
    /\ intermediary_idx = 0
    /\ named_idx = -1
    /\ current_class = 0
    /\ heap = <<>>
    /\ container = EmptyContainer
    /\ added = <<>>
    /\ ret = NoRet
    /\ calls = <<>>
    /\ ServerInit

\* TinyV2Provider().parse(content) for every input text
TinyInit == content \in TinyContents /\ ParserInit

TinyNext == TinyBegin \/ TinyLine \/ TinyReturn

SpecTiny == TinyInit /\ [][TinyNext]_vars

\* ProGuardProvider().parse(content) for every input text
ProGuardInit == content \in ProGuardContents /\ ParserInit

ProGuardNext == ProGuardBegin \/ ProGuardLine \/ ProGuardReturn

SpecProGuard == ProGuardInit /\ [][ProGuardNext]_vars

\* ------------------------------------------------------------------------
\* Inputs of the container: complete ClassMapping objects, queries, limits
\* ------------------------------------------------------------------------

\* the most add_class calls made on one container
MaxAdds == 2

\* limits run from -MaxNegLimit to MaxLimit
MaxLimit == 2
MaxNegLimit == 1

\* class c/e/Foo, no members
ClsFoo ==
    [obf_name |-> None, intermediary_name |-> <<"c", "/", "e", "/", "F", "o", "o">>, mapped_name |-> None,
     methods |-> <<>>,
     fields |-> <<>>]

\* class d/Foo (a, Foo) with method b (b, resize) and field a (a, width)
ClsOtherFoo ==
    [obf_name |-> <<"a">>, intermediary_name |-> <<"d", "/", "F", "o", "o">>, mapped_name |-> <<"F", "o", "o">>,
     methods |-> <<<<<<"b">>, MethodMapping(<<"b">>, <<"b">>, <<"r", "e", "s", "i", "z", "e">>, <<>>, <<>>)>>>>,
     fields |-> <<<<<<"a">>, FieldMapping(<<"a">>, <<"a">>, <<"w", "i", "d", "t", "h">>, None)>>>>]

\* class a.b with method m1 mapped to foo
ClsDotted ==
    [obf_name |-> None, intermediary_name |-> <<"a", ".", "b">>, mapped_name |-> None,
     methods |-> <<<<<<"m", "1">>, MethodMapping(None, <<"m", "1">>, <<"f", "o", "o">>, <<>>, <<>>)>>>>,
     fields |-> <<>>]

\* another class c/e/Foo (a, Bar) with field b
ClsFooAgain ==
    [obf_name |-> <<"a">>, intermediary_name |-> <<"c", "/", "e", "/", "F", "o", "o">>, mapped_name |-> <<"B", "a", "r">>,
     methods |-> <<>>,
     fields |-> <<<<<<"b">>, FieldMapping(None, <<"b">>, None, None)>>>>]

\* class e with methods resize and m2 (b, resize) and field resize
ClsTwoMethods ==
    [obf_name |-> None, intermediary_name |-> <<"e">>, mapped_name |-> None,
     methods |-> <<<<<<"r", "e", "s", "i", "z", "e">>, MethodMapping(None, <<"r", "e", "s", "i", "z", "e">>, None, <<>>, <<>>)>>, <<<<"m", "2">>, MethodMapping(<<"b">>, <<"m", "2">>, <<"r", "e", "s", "i", "z", "e">>, <<>>, <<>>)>>>>,
     fields |-> <<<<<<"r", "e", "s", "i", "z", "e">>, FieldMapping(None, <<"r", "e", "s", "i", "z", "e">>, <<"b">>, None)>>>>]

ClassPool == {ClsFoo, ClsOtherFoo, ClsDotted, ClsFooAgain, ClsTwoMethods}

QFoo == <<"f", "o", "o">>
QFooCap == <<"F", "o", "o">>
QFull == <<"c", "/", "e", "/", "f", "o", "o">>
QDots == <<"C", ".", "E", ".", "F", "o", "o">>
QDotted == <<"a", ".", "b">>
QB == <<"b">>
QResize == <<"r", "e", "s", "i", "z", "e">>
QResyze == <<"r", "e", "s", "y", "z", "e">>
QZzz == <<"z", "z", "z">>
QFooo == <<"f", "o", "o", "o">>
QEmpty == <<>>

Queries ==
    {QFoo, QFooCap, QFull, QDots, QDotted, QB, QResize, QResyze, QZzz, QFooo, QEmpty}

Limits == (0 - MaxNegLimit)..MaxLimit

\* ------------------------------------------------------------------------
\* A client of the container: add_class and search calls
\* ------------------------------------------------------------------------

\* container.add_class(cls) on a ClassMapping built with its members
AddNew ==
    /\ Len(added) < MaxAdds
    /\ \E cls \in ClassPool :
          LET hp == Append(heap, cls) IN
          /\ heap' = hp
          /\ container' = add_class(container, hp, Len(hp))
          /\ added' = Append(added, Len(hp))
    /\ ret' = NoRet
    /\ UNCHANGED <<parserVars, calls, serverVars>>

\* container.add_class(cls) on an object that was added before
ReAdd ==
    /\ Len(added) < MaxAdds
    /\ \E ref \in 1..Len(heap) :
          /\ container' = add_class(container, heap, ref)
          /\ added' = Append(added, ref)
    /\ ret' = NoRet
    /\ UNCHANGED <<heap, parserVars, calls, serverVars>>

\* container.search(query, limit), as one step
Search ==
    /\ ret = NoRet
    /\ \E query \in Queries, limit \in Limits :
          LET r == search(container, query, limit) IN
          /\ ret' = [results |-> r.results, fuzzy |-> r.fuzzy,
                     query |-> query, limit |-> limit]
          /\ container' = SearchEffect(container, NormalizeQuery(query))
    /\ UNCHANGED <<heap, added, parserVars, calls, serverVars>>

\* the caller is done with the result of its search
Consume ==
    /\ ret # NoRet
    /\ ret' = NoRet
    /\ UNCHANGED <<heap, container, added, parserVars, calls, serverVars>>

Init ==
    /\ content = <<>>
    /\ ParserInit

Next == AddNew \/ ReAdd \/ Search \/ Consume

Spec == Init /\ [][Next]_vars

\* ------------------------------------------------------------------------
\* Concurrent searches on a container whose construction is finished
\* ------------------------------------------------------------------------

\* the number of callers that search at the same time
NCallers == 2

ConcClasses == {ClsOtherFoo, ClsTwoMethods}
ConcQueries == {QResize, QResyze}
ConcLimits == {1, DefaultLimit}

\* the container after add_class on hp[1], ..., hp[n] in turn
RECURSIVE Built(_, _)
Built(hp, n) ==
    IF n = 0 THEN EmptyContainer ELSE add_class(Built(hp, n - 1), hp, n)

IdleCall ==
    [state |-> "idle", query |-> None, limit |-> 0, results |-> <<>>, fuzzy |-> FALSE]

SearchInit ==
    /\ content = <<>>
    /\ lines = <<>>
    /\ pos = 0
    /\ pc = "start"
    /\ exc = ""
    /\ official_idx = -1
    /\ intermediary_idx = 0
    /\ named_idx = -1
    /\ current_class = 0
    /\ \E hp \in SeqsUpTo(ConcClasses, MaxAdds) :
          /\ heap = hp
          /\ added = [k \in 1..Len(hp) |-> k]
          /\ container = Built(hp, Len(hp))
    /\ ret = NoRet
    /\ calls = [k \in 1..NCallers |-> IdleCall]
    /\ ServerInit

\* lines 91-125 for caller k: normalize, collect the exact hits, return them if any
SearchExactPhase(k) ==
    /\ calls[k].state = "idle"
    /\ \E query \in ConcQueries, limit \in ConcLimits :
          LET q == NormalizeQuery(query)
              exact == ExactResults(container, q)
          IN /\ calls' = [calls EXCEPT ![k] =
                    IF exact # <<>>
                    THEN [state |-> "returned", query |-> query, limit |-> limit,
                          results |-> SliceLimit(exact, limit), fuzzy |-> FALSE]
                    ELSE [state |-> "fuzzy", query |-> query, limit |-> limit,
                          results |-> <<>>, fuzzy |-> FALSE]]
             /\ container' = SearchEffect(container, q)
    /\ UNCHANGED <<heap, added, parserVars, ret, serverVars>>

\* lines 127-167 for caller k: the fuzzy loops, the sort, the truncation
SearchFuzzyPhase(k) ==
    /\ calls[k].state = "fuzzy"
    /\ LET q == NormalizeQuery(calls[k].query) IN
       /\ calls' = [calls EXCEPT ![k] =
              [@ EXCEPT !.state = "returned",
                        !.results = SliceLimit(FuzzyResults(container, q),
                                              calls[k].limit),
                        !.fuzzy = TRUE]]
       /\ container' = SearchEffect(container, q)
    /\ UNCHANGED <<heap, added, parserVars, ret, serverVars>>

\* caller k is done with its result and may search again
SearchDone(k) ==
    /\ calls[k].state = "returned"
    /\ calls' = [calls EXCEPT ![k] = IdleCall]
    /\ UNCHANGED <<heap, container, added, parserVars, ret, serverVars>>

SearchNext ==
    \E k \in 1..NCallers : SearchExactPhase(k) \/ SearchFuzzyPhase(k) \/ SearchDone(k)

SpecSearch == SearchInit /\ [][SearchNext]_vars

\* ------------------------------------------------------------------------
\* server.py: search_mappings over the in-memory cache and the downloader
\* ------------------------------------------------------------------------

MOJANG == <<"m", "o", "j", "a", "n", "g">>
YARN == <<"y", "a", "r", "n">>

\* limit < 1 or limit > 100
LimitLow == 1
LimitHigh == 100

LimitRejected(limit) == limit < LimitLow \/ limit > LimitHigh

\* namespace not in ["mojang", "yarn"]
NamespaceRejected(namespace) == namespace \notin {MOJANG, YARN}

\* f"{namespace}_{version}"
cache_key(namespace, version) == namespace \o <<"_">> \o version

\* a variant that looks nothing up and loads the mappings on every call
CacheMissAlways(key) == TRUE

\* cache_key not in _mapping_cache
CacheMiss(key) == ~DictHas(_mapping_cache, key)

\* cache_dir / f"mojang_{version}.txt", cache_dir / f"yarn_{version}.tiny"
cache_file(namespace, version) ==
    namespace \o <<"_">> \o version \o
    (IF namespace = MOJANG THEN <<".", "t", "x", "t">> ELSE <<".", "t", "i", "n", "y">>)

\* not content
Falsy(text) == text = None \/ text = <<>>

\* download_mojang_mappings / download_yarn_mappings: the text of the cache
\* file if it exists, else what the network gave (None when it failed)
Downloaded(namespace, version, fetched) ==
    IF DictHas(cache_files, cache_file(namespace, version))
    THEN DictGet(cache_files, cache_file(namespace, version))
    ELSE fetched

\* cache_file.write_text(content) after a fetch that did not fail
FilesAfterDownload(namespace, version, fetched) ==
    IF DictHas(cache_files, cache_file(namespace, version)) \/ fetched = None
    THEN cache_files
    ELSE DictSet(cache_files, cache_file(namespace, version), fetched)

\* the dict of an error return; the message and suggestion texts are left out
ErrorResponse(msg) == [error |-> msg]

ErrLimit == "Limit must be between 1 and 100"
ErrNamespace == "Invalid namespace"
ErrMojang == "Failed to download Mojang mappings"
ErrYarn == "Failed to download Yarn mappings"
ErrParse == "Failed to parse mappings"

\* format_result(result), reading the class objects from the container's heap
format_result(result, hp) ==
    IF result.entry.kind = "class"
    THEN [type |-> "class",
          obf_name |-> hp[result.entry.cls].obf_name,
          intermediary |-> hp[result.entry.cls].intermediary_name,
          mapped |-> hp[result.entry.cls].mapped_name,
          score |-> result.score,
          fuzzy |-> result.fuzzy]
    ELSE [type |-> result.entry.kind,
          obf_name |-> result.entry.member.obf_name,
          intermediary |-> result.entry.member.intermediary_name,
          mapped |-> result.entry.member.mapped_name,
          descriptor |-> result.entry.member.descriptor,
          owner_obf |-> IF result.owner # NoOwner
                        THEN hp[result.owner].obf_name ELSE None,
          owner_intermediary |-> IF result.owner # NoOwner
                                 THEN hp[result.owner].intermediary_name ELSE None,
          owner_mapped |-> IF result.owner # NoOwner
                           THEN hp[result.owner].mapped_name ELSE None,
          score |-> result.score,
          fuzzy |-> result.fuzzy]

\* lines 128-143: search the cached container and build the dict that is returned
SearchResponse(cached, req) ==
    LET found == search(cached.container, req.query, req.limit)
        formatted_results ==
            [i \in 1..Len(found.results) |-> format_result(found.results[i], cached.heap)]
    IN [query |-> req.query,
        version |-> req.version,
        namespace |-> req.namespace,
        fuzzy |-> found.fuzzy,
        results |-> formatted_results,
        total |-> Len(formatted_results)]

\* a search_mappings call has been started and has not returned yet
Serving == request # NoRequest /\ response = NoResponse

\* the calls a client makes: queries, versions, namespaces, limits
V121 == <<"1", ".", "2", "1">>
V1204 == <<"1", ".", "2", "0", ".", "4">>
SRG == <<"s", "r", "g">>
ServerQueries == {QFoo, QZzz}
ServerVersions == {V121, V1204}
ServerNamespaces == {MOJANG, YARN, SRG}
ServerLimits == {LimitLow - 1, LimitLow, LimitHigh, LimitHigh + 1}

\* at most MaxDownloads calls reach the downloader
MaxDownloads == 2

\* what the network can give: a Yarn text that parses, one whose first line
\* lacks the marker, one with a class line without names; two Mojang texts
YarnGood == join(<<HdrFull, LnClass, LnMethod>>, <<NL>>)
YarnBadHeader == join(<<HdrOther, LnClass>>, <<NL>>)
YarnBareClass == join(<<HdrFull, LnClassBare>>, <<NL>>)
MojangGood == join(<<PgClass, PgMethod>>, <<NL>>)
MojangOther == join(<<PgComment, PgClass2>>, <<NL>>)

\* None: the download failed; '': an empty file was served
Fetched(namespace) ==
    {None, <<>>} \cup (IF namespace = MOJANG THEN {MojangGood, MojangOther}
                       ELSE {YarnGood, YarnBadHeader, YarnBareClass})

\* search_mappings(query, version, namespace, limit), lines 86-119 and, when the
\* key is cached, 128-143: validate, look the key up, download on a miss and
\* hand the text to the provider's parse
search_mappings ==
    /\ ~Serving
    /\ \E query \in ServerQueries, version \in ServerVersions,
          namespace \in ServerNamespaces, limit \in ServerLimits :
          LET req == [query |-> query, version |-> version,
                      namespace |-> namespace, limit |-> limit]
              key == cache_key(namespace, version)
          IN /\ request' = req
             /\ IF LimitRejected(limit)
                THEN /\ response' = ErrorResponse(ErrLimit)
                     /\ UNCHANGED <<_mapping_cache, cache_files, downloads, parses,
                                    content, pc>>
                ELSE IF NamespaceRejected(namespace)
                THEN /\ response' = ErrorResponse(ErrNamespace)
                     /\ UNCHANGED <<_mapping_cache, cache_files, downloads, parses,
                                    content, pc>>
                ELSE IF CacheMiss(key)
                THEN /\ downloads < MaxDownloads
                     /\ \E fetched \in Fetched(namespace) :
                           LET text == Downloaded(namespace, version, fetched) IN
                           /\ downloads' = downloads + 1
                           /\ cache_files' = FilesAfterDownload(namespace, version, fetched)
                           /\ IF Falsy(text)
                              THEN /\ response' = ErrorResponse(
                                         IF namespace = MOJANG THEN ErrMojang ELSE ErrYarn)
                                   /\ UNCHANGED <<content, pc, parses>>
                              ELSE /\ response' = NoResponse
                                   /\ content' = text
                                   /\ pc' = "start"
                                   /\ parses' = parses + 1
                     /\ UNCHANGED _mapping_cache
                ELSE /\ response' = SearchResponse(DictGet(_mapping_cache, key), req)
                     /\ UNCHANGED <<_mapping_cache, cache_files, downloads, parses,
                                    content, pc>>
    /\ UNCHANGED <<lines, pos, exc, official_idx, intermediary_idx, named_idx,
                   current_class, heap, container, added, ret, calls>>

\* provider.parse(content), line 119, with the provider chosen at 106 or 115
YarnParse == Serving /\ request.namespace = YARN /\ TinyNext
MojangParse == Serving /\ request.namespace = MOJANG /\ ProGuardNext

\* a variant that caches whatever the parser had built when it raised
ParseFailedStoring ==
    /\ Serving
    /\ pc = "error"
    /\ response' = ErrorResponse(ErrParse)
    /\ _mapping_cache' =
          DictSet(_mapping_cache, cache_key(request.namespace, request.version),
                  [container |-> container, heap |-> heap, id |-> parses])
    /\ UNCHANGED <<parserVars, heap, container, added, ret, calls,
                   cache_files, request, downloads, parses>>

\* lines 121-125: parse raised, the error dict is returned
ParseFailed ==
    /\ Serving
    /\ pc = "error"
    /\ response' = ErrorResponse(ErrParse)
    /\ UNCHANGED <<parserVars, heap, container, added, ret, calls,
                   _mapping_cache, cache_files, request, downloads, parses>>

\* lines 120 and 128-143: parse returned; the container (the id tells the
\* objects of one parse from those of another) is stored under the key, read
\* back and searched
ParseStored ==
    /\ Serving
    /\ pc = "done"
    /\ LET key == cache_key(request.namespace, request.version)
           cache == DictSet(_mapping_cache, key,
                            [container |-> container, heap |-> heap, id |-> parses])
       IN /\ _mapping_cache' = cache
          /\ response' = SearchResponse(DictGet(cache, key), request)
    /\ UNCHANGED <<parserVars, heap, container, added, ret, calls,
                   cache_files, request, downloads, parses>>

ServerNext == search_mappings \/ YarnParse \/ MojangParse \/ ParseFailed \/ ParseStored

SpecServer == Init /\ [][ServerNext]_vars

\* ------------------------------------------------------------------------
\* Claims
\* ------------------------------------------------------------------------

\* the (results, fuzzy) of a search holds an exact result for entry e owned by owner
HasExact(r, e, owner) ==
    /\ r.fuzzy = FALSE
    /\ \E k \in 1..Len(r.results) : r.results[k] = SearchResult(e, owner, One, FALSE)

\* the non-empty names of an entry
TruthyNames(e) == {n \in {e.obf_name, e.intermediary_name, e.mapped_name} : Truthy(n)}

\* C1: when TinyV2Provider.parse has returned, every class it created, and every
\* method and field in a class's member maps, is found by an exact search
\* (fuzzy = false, score 1.0) on each of its non-empty names, a member with the
\* class it was listed under as owner.
C1_ParsedEntitiesFoundExactly ==
    pc = "done" =>
        \A ref \in 1..Len(heap) :
            /\ \A n \in TruthyNames(heap[ref]) :
                  LET r == search(container, n, DefaultLimit) IN
                  /\ r.fuzzy = FALSE
                  /\ \E k \in 1..Len(r.results) :
                        /\ r.results[k].entry.kind = "class"
                        /\ heap[r.results[k].entry.cls] = heap[ref]
                        /\ r.results[k].score = One
                        /\ r.results[k].fuzzy = FALSE
            /\ \A k \in 1..Len(heap[ref].methods) :
                  \A n \in TruthyNames(heap[ref].methods[k][2]) :
                      HasExact(search(container, n, DefaultLimit),
                               MethodEntry(heap[ref].methods[k][2]), ref)
            /\ \A k \in 1..Len(heap[ref].fields) :
                  \A n \in TruthyNames(heap[ref].fields[k][2]) :
                      HasExact(search(container, n, DefaultLimit),
                               FieldEntry(heap[ref].fields[k][2]), ref)

\* the lines of the input text as written
RawLines == split(content, <<NL>>)

\* a ProGuard class header: "<obf> -> <mapped>:", not in a comment
IsClassHeader(line) ==
    /\ contains(strip(line), ARROW)
    /\ endswith(strip(line), <<":">>)
    /\ ~startswith(strip(line), <<"#">>)

\* an indented line with the arrow token that is no class header
IsMemberLine(line) ==
    /\ line # <<>>
    /\ IsSpace(line[1])
    /\ contains(strip(line), ARROW)
    /\ ~IsClassHeader(line)

\* the number of class headers among the first k lines
RECURSIVE HeadersUpTo(_, _)
HeadersUpTo(ls, k) ==
    IF k = 0 THEN 0
    ELSE HeadersUpTo(ls, k - 1) + (IF IsClassHeader(ls[k]) THEN 1 ELSE 0)

\* the member a ProGuard member line describes: left and right of the arrow
MemberLeft(line) == strip(split(strip(line), ARROW)[1])
MemberRight(line) == strip(split(strip(line), ARROW)[2])
MemberIsMethod(line) == contains(MemberLeft(line), <<"(">>)
MemberObf(line) ==
    LastWord(IF MemberIsMethod(line) THEN split(MemberLeft(line), <<"(">>)[1]
             ELSE MemberLeft(line))
MemberParams(line) ==
    LET inner == rstripChar(split(MemberLeft(line), <<"(">>)[2], ")") IN
    IF inner = <<>> THEN <<>> ELSE split(inner, <<",">>)

\* C2: when ProGuardProvider.parse has returned, every indented line with the
\* arrow token that follows a class header has put a member into that class: a
\* method (obf name before "(", comma-split parameters, empty descriptor) or a
\* field (obf name = last word of the left side), mapped_name the right side,
\* intermediary_name equal to obf_name.
C2_MemberLinesAddMembers ==
    pc = "done" =>
        \A k \in 1..Len(RawLines) :
            (IsMemberLine(RawLines[k]) /\ HeadersUpTo(RawLines, k) > 0) =>
                LET cls == heap[HeadersUpTo(RawLines, k)]
                    line == RawLines[k]
                IN IF MemberIsMethod(line)
                   THEN \E j \in 1..Len(cls.methods) :
                            cls.methods[j][2] =
                                MethodMapping(MemberObf(line), MemberObf(line),
                                              MemberRight(line), <<>>,
                                              MemberParams(line))
                   ELSE \E j \in 1..Len(cls.fields) :
                            /\ cls.fields[j][2].obf_name = MemberObf(line)
                            /\ cls.fields[j][2].intermediary_name = MemberObf(line)
                            /\ cls.fields[j][2].mapped_name = MemberRight(line)

\* every key of the three indices: the lowercased names that were indexed
IndexedKeys(c) ==
    DictKeys(c._class_index) \cup DictKeys(c._method_index) \cup DictKeys(c._field_index)

\* C3: a query that equals an indexed name up to case gets an exact answer:
\* fuzzy = false, and every result has score 1.0 and fuzzy = false.
C3_ExactPreferredOverFuzzy ==
    \A query \in Queries, limit \in Limits :
        lower(query) \in IndexedKeys(container) =>
            LET r == search(container, query, limit) IN
            /\ r.fuzzy = FALSE
            /\ \A k \in 1..Len(r.results) :
                  r.results[k].score = One /\ r.results[k].fuzzy = FALSE

\* the (ref, member) pair is listed in the index under the lowercased name
Listed(idx, name, ref, member) ==
    /\ DictHas(idx, lower(name))
    /\ InSeq(DictGet(idx, lower(name)), <<ref, member>>)

\* C4: every method and field a class held when it was passed to add_class is
\* listed with that class in the method (field) index under each of its
\* non-empty names, lowercased, and stays listed after later add_class calls.
C4_MembersAtCallTimeIndexed ==
    \A j \in 1..Len(added) :
        LET ref == added[j]
            cls == heap[ref]
        IN /\ \A k \in 1..Len(cls.methods) :
                 \A n \in TruthyNames(cls.methods[k][2]) :
                     Listed(container._method_index, n, ref, cls.methods[k][2])
           /\ \A k \in 1..Len(cls.fields) :
                 \A n \in TruthyNames(cls.fields[k][2]) :
                     Listed(container._field_index, n, ref, cls.fields[k][2])

\* a class with a method and a field was added, then a class whose members share
\* the name "resize" with it
C4_Witness ==
    /\ Len(added) >= 2
    /\ heap[added[1]] = ClsOtherFoo
    /\ heap[added[2]] = ClsTwoMethods
    /\ Len(DictGet(container._method_index, QResize)) = 3

\* C5 as claimed: for every integer limit the search returns at most limit results.
C5_CountAtMostLimit == ret # NoRet => Len(ret.results) <= ret.limit

\* C5: for every limit >= 0 the search returns at most limit results, from the
\* exact phase and from the fuzzy phase.
C5_CountAtMostNonNegativeLimit ==
    (ret # NoRet /\ ret.limit >= 0) => Len(ret.results) <= ret.limit

\* a fuzzy search whose candidates were cut down to the limit
C5_Witness ==
    /\ ret # NoRet
    /\ ret.fuzzy
    /\ ret.limit = 1
    /\ Len(ret.results) = 1
    /\ Len(FuzzyResults(container, NormalizeQuery(ret.query))) > 1

\* stands for com/example/Foo: a class name with a package path
FooName == <<"c", "/", "e", "/", "F", "o", "o">>

\* the keys add_class puts a class under: each non-empty name lowercased, and its
\* simple name
ClassKeys(cls) ==
    {lower(n) : n \in TruthyNames(cls)}
    \cup {SimpleName(n) : n \in {m \in TruthyNames(cls) : SimpleName(m) # <<>>}}

\* C6 as claimed: whatever else the container holds, the exact searches for the
\* full name and for the simple name of a class named c/e/Foo that is in the
\* container return that class, fuzzy = false.
C6_SimpleNameResolvesClass ==
    \A j \in 1..Len(container.classes) :
        LET ref == container.classes[j][2] IN
        heap[ref].intermediary_name = FooName =>
            /\ HasExact(search(container, QFull, DefaultLimit), ClassEntry(ref), NoOwner)
            /\ HasExact(search(container, QFoo, DefaultLimit), ClassEntry(ref), NoOwner)

\* the last add_class call whose class has the key
LastWithKey(key) ==
    CHOOSE i \in 1..Len(added) :
        /\ key \in ClassKeys(heap[added[i]])
        /\ \A k \in (i + 1)..Len(added) : key \notin ClassKeys(heap[added[k]])

\* C6: for a class named c/e/Foo that was added, the exact searches for the full
\* name and for the simple name return fuzzy = false and, first, the class most
\* recently added among those with that full or simple name: c/e/Foo itself
\* when no such class was added after it.
C6_SimpleNameResolvesLatestClass ==
    \A j \in 1..Len(added) :
        heap[added[j]].intermediary_name = FooName =>
            \A key \in {QFull, QFoo} :
                LET r == search(container, key, DefaultLimit) IN
                /\ r.fuzzy = FALSE
                /\ r.results # <<>>
                /\ r.results[1] =
                      SearchResult(ClassEntry(added[LastWithKey(key)]), NoOwner,
                                   One, FALSE)

\* c/e/Foo was added, then a class sharing no name with it, and "foo" finds c/e/Foo
C6_Witness ==
    /\ Len(added) = 2
    /\ heap[added[1]] = ClsFoo
    /\ heap[added[2]] = ClsDotted
    /\ HasExact(search(container, QFoo, DefaultLimit), ClassEntry(added[1]), NoOwner)

\* the line the loop has just processed, and its fields
DoneLine == lines[pos - 1]
DoneParts == split(strip(DoneLine), <<TAB>>)

\* a name column is out of range for a list of names
OutOfRange(names, idx) == idx < 0 \/ idx >= Len(names)

\* C7: parse of a text with a valid header never fails on a short line: the
\* only error is the format error; the class of a class line just processed has
\* obf_name and mapped_name absent when their columns are out of range; the
\* member of a method line just processed likewise, its intermediary_name being
\* "" when that column is out of range.
C7_ShortLinesNeverFail ==
    /\ pc = "error" => exc = ValueError
    /\ (pc = "loop" /\ pos > 2 /\ strip(DoneLine) # <<>>) =>
          /\ (Indent(DoneLine) = 0 /\ DoneParts[1] = <<"c">>) =>
                LET names == SliceFrom(DoneParts, 1)
                    cls == heap[Len(heap)]
                IN /\ OutOfRange(names, official_idx) => cls.obf_name = None
                   /\ OutOfRange(names, named_idx) => cls.mapped_name = None
          /\ (Indent(DoneLine) = 1 /\ current_class # 0 /\ DoneParts[1] = <<"m">>) =>
                LET names == SliceFrom(DoneParts, 2) IN
                \E k \in 1..Len(heap[current_class].methods) :
                    LET m == heap[current_class].methods[k][2] IN
                    /\ OutOfRange(names, official_idx) => m.obf_name = None
                    /\ OutOfRange(names, named_idx) => m.mapped_name = None
                    /\ OutOfRange(names, intermediary_idx) => m.intermediary_name = <<>>

\* C8: in a container returned by parse every class, and every method and field
\* in a class's member maps, has a non-empty intermediary_name.
C8_IntermediaryNameNeverEmpty ==
    pc = "done" =>
        \A j \in 1..Len(container.classes) :
            LET cls == heap[container.classes[j][2]] IN
            /\ Truthy(cls.intermediary_name)
            /\ \A k \in 1..Len(cls.methods) : Truthy(cls.methods[k][2].intermediary_name)
            /\ \A k \in 1..Len(cls.fields) : Truthy(cls.fields[k][2].intermediary_name)

\* the first line of the text as written that is not blank, <<>> if there is none
FirstNonEmptyLine ==
    IF \E k \in 1..Len(RawLines) : strip(RawLines[k]) # <<>>
    THEN RawLines[CHOOSE k \in 1..Len(RawLines) :
                    /\ strip(RawLines[k]) # <<>>
                    /\ \A j \in 1..(k - 1) : strip(RawLines[j]) = <<>>]
    ELSE <<>>

\* C9 as claimed: the format error is raised exactly when the first non-empty
\* line of the text does not begin with "tiny"; then nothing is returned.
C9_FormatErrorIffFirstLineLacksMarker ==
    pc # "start" =>
        /\ (exc = ValueError) <=> ~startswith(FirstNonEmptyLine, TINY)
        /\ exc = ValueError => pc = "error"

\* C9: the format error is raised exactly when the text, its leading whitespace
\* removed, does not begin with "tiny" (an empty or blank text included); then
\* nothing is returned.
C9_FormatErrorIffStrippedTextLacksMarker ==
    pc # "start" =>
        /\ (exc = ValueError) <=> ~startswith(lstrip(content), TINY)
        /\ exc = ValueError => pc = "error"

\* a text with a first line that lacks the marker, and more lines, was rejected
C9_Witness ==
    /\ pc = "error"
    /\ exc = ValueError
    /\ Len(lines) > 1
    /\ lines[1] # <<>>

\* C10: a search leaves the class map and the three indices as they were, and
\* a search that returns while other callers search returns what one search of
\* the container, run alone, returns for its query and limit.
C10_SearchNeverMutates ==
    [][/\ container' = container
       /\ heap' = heap
       /\ \A k \in 1..NCallers :
             (calls'[k] # calls[k] /\ calls'[k].state = "returned") =>
                 /\ calls'[k].results =
                       search(container, calls'[k].query, calls'[k].limit).results
                 /\ calls'[k].fuzzy =
                       search(container, calls'[k].query, calls'[k].limit).fuzzy]_vars

\* one caller is between the two phases of its search while another caller's
\* fuzzy search has returned results
C10_Witness ==
    /\ calls[1].state = "fuzzy"
    /\ calls[2].state = "returned"
    /\ calls[2].fuzzy
    /\ calls[2].results # <<>>

\* the keys under which the entry of a search result is listed in its index
KeysOf(c, r) ==
    IF r.entry.kind = "class"
    THEN {c._class_index[i][1] :
            i \in {j \in 1..Len(c._class_index) : c._class_index[j][2] = r.entry.cls}}
    ELSE LET idx == IF r.entry.kind = "method" THEN c._method_index ELSE c._field_index
         IN {idx[i][1] :
               i \in {j \in 1..Len(idx) : InSeq(idx[j][2], <<r.owner, r.entry.member>>)}}

\* 2 x matched characters / total characters of a and b, as a fraction
Similarity(a, b) == <<2 * Matches(a, b), Len(a) + Len(b)>>

\* the fraction is strictly greater than 0.6
AboveSixTenths(x) == 10 * x[1] > 6 * x[2]

\* C11: when a search returns fuzzy = true, every result is marked fuzzy, its
\* score is strictly greater than 0.6, and the score is the similarity ratio of
\* the normalized query to an index key its entry is listed under; so no key
\* with ratio at or below 0.6 contributes a result.
C11_FuzzyOnlyAboveThreshold ==
    (ret # NoRet /\ ret.fuzzy) =>
        \A k \in 1..Len(ret.results) :
            LET r == ret.results[k] IN
            /\ r.fuzzy
            /\ AboveSixTenths(r.score)
            /\ \E key \in KeysOf(container, r) :
                  r.score = Similarity(NormalizeQuery(ret.query), key)

\* a fuzzy search returned a result while an index key has ratio exactly 0.6
C11_Witness ==
    /\ ret # NoRet
    /\ ret.fuzzy
    /\ ret.results # <<>>
    /\ \E key \in IndexedKeys(container) :
          LET x == Similarity(NormalizeQuery(ret.query), key) IN 10 * x[1] = 6 * x[2]

\* the fuzzy candidates in the order the three loops find them
Candidates(c, q) ==
    FuzzyClasses(c._class_index, q)
    \o FuzzyMembers(c._method_index, q, "method")
    \o FuzzyMembers(c._field_index, q, "field")

\* C12: in a sequence returned by the fuzzy phase every result is a candidate,
\* each result's score is at least the next one's, and no candidate left out
\* of the sequence has a score strictly greater than a result in it.
C12_FuzzySortedDescending ==
    (ret # NoRet /\ ret.fuzzy) =>
        LET rs == ret.results
            all == Candidates(container, NormalizeQuery(ret.query))
        IN /\ \A k \in 1..Len(rs) : InSeq(all, rs[k])
           /\ \A k \in 1..(Len(rs) - 1) : ~FracGT(rs[k + 1].score, rs[k].score)
           /\ \A i \in 1..Len(all) :
                 ~InSeq(rs, all[i]) =>
                     \A k \in 1..Len(rs) : ~FracGT(all[i].score, rs[k].score)

\* a fuzzy search with limit 1 kept a result the loops did not find first and
\* dropped a candidate of strictly smaller score
C12_Witness ==
    /\ ret # NoRet
    /\ ret.fuzzy
    /\ ret.limit = 1
    /\ Len(ret.results) = 1
    /\ LET all == Candidates(container, NormalizeQuery(ret.query)) IN
       /\ all[1] # ret.results[1]
       /\ \E i \in 1..Len(all) : FracGT(ret.results[1].score, all[i].score)

\* the normalized query is no index key and no index key has ratio above 0.6
NoKeyMatches(c, q) ==
    /\ q \notin IndexedKeys(c)
    /\ \A key \in IndexedKeys(c) : ~AboveSixTenths(Similarity(q, key))

\* C13: a search can be made on every container, the empty one included, and
\* returns a sequence and a flag; when the normalized query is no index key and
\* no index key has ratio above 0.6 it returns the empty sequence and
\* fuzzy = true.
C13_SearchNeverFails ==
    /\ ret = NoRet => ENABLED Search
    /\ ret # NoRet =>
          /\ ret.fuzzy \in BOOLEAN
          /\ DOMAIN ret.results = 1..Len(ret.results)
          /\ NoKeyMatches(container, NormalizeQuery(ret.query)) =>
                (ret.results = <<>> /\ ret.fuzzy = TRUE)

\* a query that matches nothing was searched in a container that holds classes
C13_Witness ==
    /\ ret # NoRet
    /\ container.classes # <<>>
    /\ ret.limit > 0
    /\ NoKeyMatches(container, NormalizeQuery(ret.query))
    /\ ret.results = <<>>
    /\ ret.fuzzy

\* a ProGuard line that is blank, a comment, or has no arrow token
IsBlankLine(line) == strip(line) = <<>>
IsCommentLine(line) == startswith(strip(line), <<"#">>)
LacksArrow(line) == ~contains(strip(line), ARROW)

\* line k of the text is one the ProGuard parser has to skip: blank, a comment,
\* without the arrow token, or a member line with no class header before it
ProGuardSkips(ls, k) ==
    \/ IsBlankLine(ls[k])
    \/ IsCommentLine(ls[k])
    \/ LacksArrow(ls[k])
    \/ HeadersUpTo(ls, k) = 0

\* C14: no step of ProGuardProvider.parse raises: each step leaves parse in
\* its loop or returned; a step over a blank line, a comment line, a line
\* without the arrow token or a member line before any class header goes on
\* to the next line and leaves the container, the classes and the current
\* class as they were.
C14_ProGuardParseNeverFails ==
    [][/\ pc' \in {"loop", "done"}
       /\ exc' = ""
       /\ (pc = "loop" /\ pos <= Len(lines) /\ ProGuardSkips(lines, pos)) =>
             /\ pc' = "loop"
             /\ pos' = pos + 1
             /\ container' = container
             /\ heap' = heap
             /\ added' = added
             /\ current_class' = current_class]_vars

\* parse returned one class from a text that has a member line before the class
\* header, a comment that looks like a class header, and a line without arrow
C14_Witness ==
    /\ pc = "done"
    /\ Len(heap) = 1
    /\ Len(container.classes) = 1
    /\ \E i, j, k, l \in 1..Len(lines) :
          /\ i < k
          /\ ~LacksArrow(lines[i]) /\ ~IsCommentLine(lines[i]) /\ ~IsClassHeader(lines[i])
          /\ IsCommentLine(lines[j]) /\ ~LacksArrow(lines[j])
          /\ IsClassHeader(lines[k])
          /\ LacksArrow(lines[l]) /\ ~IsBlankLine(lines[l]) /\ ~IsCommentLine(lines[l])

\* the tab-separated fields of the header line
HeaderFields == split(lines[1], <<TAB>>)

\* the column of the namespace with this name: its position among the header
\* fields after the first three, counted from 0; -1 if no namespace has the name
NamespaceColumn(name) ==
    IF \E k \in 4..Len(HeaderFields) : HeaderFields[k] = name
    THEN (CHOOSE k \in 4..Len(HeaderFields) :
            /\ HeaderFields[k] = name
            /\ \A j \in 4..(k - 1) : HeaderFields[j] # name) - 4
    ELSE 0 - 1

\* the column the intermediary name is read from
IntermediaryColumn ==
    IF NamespaceColumn(INTERMEDIARY) >= 0 THEN NamespaceColumn(INTERMEDIARY) ELSE 0

\* entity e was built from a line with these names by the header's columns:
\* obf_name (mapped_name) is absent when no namespace is named "official"
\* ("named"); intermediary_name is the name in the intermediary column, and no
\* name at all when the line has no name in that column
ResolvedByName(e, names) ==
    /\ NamespaceColumn(OFFICIAL) < 0 => e.obf_name = None
    /\ NamespaceColumn(NAMED) < 0 => e.mapped_name = None
    /\ IF Len(names) > IntermediaryColumn
       THEN e.intermediary_name = names[IntermediaryColumn + 1]
       ELSE ~Truthy(e.intermediary_name)

\* C15: the class, method or field built from the line just processed has its
\* names resolved by namespace name: obf_name (mapped_name) absent without an
\* "official" ("named") namespace, intermediary_name from the column named
\* "intermediary", or column 0 without one; the first three header fields are
\* no namespaces.
C15_NamespaceColumnsByName ==
    (pc = "loop" /\ pos > 2 /\ strip(DoneLine) # <<>>) =>
        /\ (Indent(DoneLine) = 0 /\ DoneParts[1] = <<"c">>) =>
              ResolvedByName(heap[Len(heap)], SliceFrom(DoneParts, 1))
        /\ (Indent(DoneLine) = 1 /\ current_class # 0 /\ DoneParts[1] = <<"m">>) =>
              \E k \in 1..Len(heap[current_class].methods) :
                  ResolvedByName(heap[current_class].methods[k][2],
                                 SliceFrom(DoneParts, 2))
        /\ (Indent(DoneLine) = 1 /\ current_class # 0 /\ DoneParts[1] = <<"f">>) =>
              \E k \in 1..Len(heap[current_class].fields) :
                  ResolvedByName(heap[current_class].fields[k][2],
                                 SliceFrom(DoneParts, 2))

\* the tab-separated fields of a Format A line
TinyParts(line) == split(strip(line), <<TAB>>)

\* a depth-0 class line; a depth-1 method line; a depth-1 field line
IsTinyClassLine(line) ==
    strip(line) # <<>> /\ Indent(line) = 0 /\ TinyParts(line)[1] = <<"c">>
IsTinyMethodLine(line) ==
    strip(line) # <<>> /\ Indent(line) = 1 /\ TinyParts(line)[1] = <<"m">>
IsTinyFieldLine(line) ==
    strip(line) # <<>> /\ Indent(line) = 1 /\ TinyParts(line)[1] = <<"f">>

\* the number of class lines among lines 2..k of the text: the class started by
\* the nearest class line at or before line k is the one created with that number
RECURSIVE ClassLinesUpTo(_, _)
ClassLinesUpTo(ls, k) ==
    IF k < 2 THEN 0
    ELSE ClassLinesUpTo(ls, k - 1) + (IF IsTinyClassLine(ls[k]) THEN 1 ELSE 0)

\* the member map holds, under its intermediary name, a member made from the line
HoldsMemberOf(members, line) ==
    \E k \in 1..Len(members) :
        LET m == members[k][2] IN
        /\ members[k][1] = m.intermediary_name
        /\ Len(TinyParts(line)) > 1 => m.descriptor = TinyParts(line)[2]
        /\ \A n \in TruthyNames(m) : InSeq(SliceFrom(TinyParts(line), 2), n)

\* C16: a step of the Format A parser over a depth-1 method (field) line that
\* has a class line before it puts the member into the method (field) map of
\* the class started by the nearest preceding class line and changes no other
\* class; and no step at all changes a class other than that one.
C16_MembersGoToNearestClass ==
    [][(pc = "loop" /\ pos <= Len(lines)) =>
          LET line == lines[pos]
              n == ClassLinesUpTo(lines, pos - 1)
          IN /\ \A ref \in 1..Len(heap) : heap'[ref] # heap[ref] => ref = n
             /\ (IsTinyMethodLine(line) /\ n > 0) =>
                   /\ Len(heap') = Len(heap)
                   /\ HoldsMemberOf(heap'[n].methods, line)
                   /\ heap'[n].fields = heap[n].fields
             /\ (IsTinyFieldLine(line) /\ n > 0) =>
                   /\ Len(heap') = Len(heap)
                   /\ HoldsMemberOf(heap'[n].fields, line)
                   /\ heap'[n].methods = heap[n].methods]_vars

\* parse returned two classes from a text whose member line follows the second
\* class line: the member is in the second class and not in the first
C16_Witness ==
    /\ pc = "done"
    /\ Len(heap) = 2
    /\ heap[1].methods = <<>>
    /\ heap[1].fields = <<>>
    /\ heap[2].methods # <<>>

\* line k of the text is one the Format A parser has to ignore: a depth-1 line
\* with no class line before it, a line deeper than 1, or a depth-0 line whose
\* first token is not the class marker
TinyIgnores(ls, k) ==
    /\ strip(ls[k]) # <<>>
    /\ \/ Indent(ls[k]) = 1 /\ ClassLinesUpTo(ls, k - 1) = 0
       \/ Indent(ls[k]) > 1
       \/ Indent(ls[k]) = 0 /\ TinyParts(ls[k])[1] # <<"c">>

\* C17: a step of the Format A parser over a depth-1 line before any class
\* line, a line deeper than 1 or a depth-0 line that is no class line raises
\* nothing, goes on to the next line and leaves the container with its
\* indices, the classes with their member maps and the current class as they
\* were.
C17_StrayLinesIgnored ==
    [][(pc = "loop" /\ pos <= Len(lines) /\ TinyIgnores(lines, pos)) =>
          /\ pc' = "loop"
          /\ exc' = ""
          /\ pos' = pos + 1
          /\ container' = container
          /\ heap' = heap
          /\ added' = added
          /\ current_class' = current_class]_vars

\* parse returned from a text with a method line before any class line, then a
\* depth-2 line, then a depth-0 line that is no class line
C17_Witness ==
    /\ pc = "done"
    /\ Len(lines) = 4
    /\ IsTinyMethodLine(lines[2])
    /\ Indent(lines[3]) > 1
    /\ TinyIgnores(lines, 4) /\ Indent(lines[4]) = 0
    /\ container = EmptyContainer

\* the results of a sequence that have a score equal to x, in their order,
\* each as the pair of its entry and owner
WithScore(rs, x) ==
    LET same == SelectSeq(rs, LAMBDA r : FracEQ(r.score, x))
    IN [i \in 1..Len(same) |-> <<same[i].entry, same[i].owner>>]

\* the (entry, owner) pairs of a member index in its order: key by key in
\* insertion order, the pairs of one key in the order they were appended
RECURSIVE MemberHits(_, _)
MemberHits(idx, kind) ==
    IF idx = <<>> THEN <<>>
    ELSE [i \in 1..Len(idx[1][2]) |->
            <<IF kind = "method" THEN MethodEntry(idx[1][2][i][2])
              ELSE FieldEntry(idx[1][2][i][2]),
              idx[1][2][i][1]>>]
         \o MemberHits(Tail(idx), kind)

\* every hit the indices can give: class-index hits, then method-index hits,
\* then field-index hits, each in index insertion order
AllHits(c) ==
    [i \in 1..Len(c._class_index) |-> <<ClassEntry(c._class_index[i][2]), NoOwner>>]
    \o MemberHits(c._method_index, "method")
    \o MemberHits(c._field_index, "field")

\* the elements of a occur in b in the same order
RECURSIVE IsSubsequence(_, _)
IsSubsequence(a, b) ==
    IF a = <<>> THEN TRUE
    ELSE IF b = <<>> THEN FALSE
    ELSE IF a[1] = b[1] THEN IsSubsequence(Tail(a), Tail(b))
    ELSE IsSubsequence(a, Tail(b))

\* C18: two searches that returned for the same query and limit on the same
\* container returned the same sequence and flag; and in a fuzzy result
\* the results of any one score are in the order the indices hold them:
\* class-index hits, then method-index hits, then field-index hits, each in
\* index insertion order.
C18_DeterministicStableOrder ==
    \A k \in 1..Len(calls) :
        calls[k].state = "returned" =>
            /\ \A j \in 1..Len(calls) :
                  (/\ calls[j].state = "returned"
                   /\ calls[j].query = calls[k].query
                   /\ calls[j].limit = calls[k].limit) =>
                      /\ calls[j].results = calls[k].results
                      /\ calls[j].fuzzy = calls[k].fuzzy
            /\ calls[k].fuzzy =>
                  LET scores == {calls[k].results[i].score :
                                    i \in 1..Len(calls[k].results)}
                  IN \A x \in scores :
                        IsSubsequence(WithScore(calls[k].results, x), AllHits(container))

\* two callers returned from the same fuzzy search with a method hit and a
\* field hit of equal score
C18_Witness ==
    /\ calls[1].state = "returned"
    /\ calls[2].state = "returned"
    /\ calls[1].query = calls[2].query
    /\ calls[1].limit = calls[2].limit
    /\ calls[1].fuzzy
    /\ \E i, j \in 1..Len(calls[1].results) :
          /\ i < j
          /\ calls[1].results[i].entry.kind = "method"
          /\ calls[1].results[j].entry.kind = "field"
          /\ FracEQ(calls[1].results[i].score, calls[1].results[j].score)

\* the class objects that were passed to add_class
AddedRefs == {added[j] : j \in 1..Len(added)}

\* C19: in every sequence a search returns, a class result has no owner, and a
\* method (field) result has an owner: a class that was passed to add_class
\* with that method (field) in its methods (fields) map.
C19_OwnerAbsentIffClass ==
    ret # NoRet =>
        \A k \in 1..Len(ret.results) :
            LET r == ret.results[k] IN
            /\ (r.owner = NoOwner) <=> (r.entry.kind = "class")
            /\ r.entry.kind = "method" =>
                  /\ r.owner \in AddedRefs
                  /\ InSeq(DictValues(heap[r.owner].methods), r.entry.member)
            /\ r.entry.kind = "field" =>
                  /\ r.owner \in AddedRefs
                  /\ InSeq(DictValues(heap[r.owner].fields), r.entry.member)

\* one search returned a class and a method of another class
C19_Witness ==
    /\ ret # NoRet
    /\ \E i, j \in 1..Len(ret.results) :
          /\ ret.results[i].entry.kind = "class"
          /\ ret.results[j].entry.kind = "method"
          /\ ret.results[j].owner # ret.results[i].entry.cls

\* the class object is the one the class map holds under its intermediary name
StoredClass(c, ref) ==
    /\ DictHas(c.classes, heap[ref].intermediary_name)
    /\ DictGet(c.classes, heap[ref].intermediary_name) = ref

\* C20: after any sequence of add_class calls every class the class index
\* refers to, and every owner in the method index and in the field index, is
\* the class the class map currently holds under its intermediary name.
C20_IndicesReferToStoredClasses ==
    /\ \A i \in 1..Len(container._class_index) :
          StoredClass(container, container._class_index[i][2])
    /\ \A i \in 1..Len(container._method_index) :
          \A j \in 1..Len(container._method_index[i][2]) :
              StoredClass(container, container._method_index[i][2][j][1])
    /\ \A i \in 1..Len(container._field_index) :
          \A j \in 1..Len(container._field_index[i][2]) :
              StoredClass(container, container._field_index[i][2][j][1])

\* the number of add_class calls that were made with the class object ref
TimesAdded(ref) == Cardinality({j \in 1..Len(added) : added[j] = ref})

\* C21: an exact search never returns the same (owner, entry) pair twice when
\* the owner was passed to add_class once; a method or field with two equal
\* names (obf_name equal to intermediary_name) is returned once for that name.
C21_ExactResultsNoDuplicatePair ==
    (ret # NoRet /\ ~ret.fuzzy) =>
        \A i, j \in 1..Len(ret.results) :
            (/\ i < j
             /\ ret.results[i].owner # NoOwner
             /\ TimesAdded(ret.results[i].owner) = 1)
            => ~(/\ ret.results[i].owner = ret.results[j].owner
                 /\ ret.results[i].entry = ret.results[j].entry)

\* the lines 2..Len(ls) of a Format A text that are listed under the n-th class
\* line and satisfy the test IsMember (method line or field line)
MemberLinesOf(ls, n, IsMember(_)) ==
    {k \in 2..Len(ls) : IsMember(ls[k]) /\ ClassLinesUpTo(ls, k) = n}

\* no line of the text is listed twice
LinesDistinct(ls) ==
    \A i, j \in 1..Len(ls) : ls[i] = ls[j] => i = j

\* C22: when the Format A parser has returned from a text that lists no line
\* twice, every class holds as many methods as there are method lines under
\* its class line, and as many fields as field lines, also when two method
\* lines of the class share the intermediary name and differ in descriptor.
C22_NoMemberLineLost ==
    (pc = "done" /\ LinesDistinct(lines)) =>
        \A n \in 1..Len(heap) :
            /\ Len(heap[n].methods) =
                   Cardinality(MemberLinesOf(lines, n, IsTinyMethodLine))
            /\ Len(heap[n].fields) =
                   Cardinality(MemberLinesOf(lines, n, IsTinyFieldLine))

\* the dict a call returned has an "error" entry
IsError(resp) == "error" \in DOMAIN resp

\* the arguments are ones search_mappings does not reject
ArgsAccepted(req) ==
    /\ req.limit \in LimitLow..LimitHigh
    /\ req.namespace \in {MOJANG, YARN}

\* C23: no step of a search_mappings call that returns an error, or that has
\* not returned yet, changes the in-memory cache; the cache changes only by
\* storing the container that parse returned, from a text that was downloaded,
\* under the key namespace_version of the call; and a call rejected for its
\* limit or namespace returns an error without any download or parse.
C23_ErrorsLeaveCacheUnchanged ==
    [][/\ (IsError(response') \/ response' = NoResponse) =>
              _mapping_cache' = _mapping_cache
       /\ _mapping_cache' # _mapping_cache =>
              /\ Serving
              /\ pc = "done"
              /\ exc = ""
              /\ ~Falsy(content)
              /\ ArgsAccepted(request)
              /\ LET key == request.namespace \o <<"_">> \o request.version IN
                 /\ DictHas(_mapping_cache', key)
                 /\ DictGet(_mapping_cache', key).container = container
                 /\ \A i \in 1..Len(_mapping_cache) :
                        _mapping_cache[i][1] # key =>
                            _mapping_cache'[i] = _mapping_cache[i]
       /\ (~Serving /\ ~ArgsAccepted(request')) =>
              /\ IsError(response')
              /\ downloads' = downloads
              /\ parses' = parses
              /\ cache_files' = cache_files]_vars

\* a call returned the parse error while a container of an earlier call is cached
C23_Witness ==
    /\ response = ErrorResponse(ErrParse)
    /\ _mapping_cache # <<>>

====
